---------------------------- MODULE Spec2Model ----------------------------
(***************************************************************************)
(* A model of the marketplace views of shop/views.py and shop/models.py:   *)
(* the checkout / stock settlement workflow and the password-reset token   *)
(* lifecycle.  Every request is served by its own worker against the      *)
(* shared database; the handlers open no transaction, so each ORM call is  *)
(* committed on its own and the workers interleave between the calls.      *)
(* A browser session sends one request at a time; different sessions run   *)
(* concurrently.  Every session is that of a logged-in buyer, so the       *)
(* login_required and _is_buyer tests pass.  The views are modelled as the *)
(* operations they implement, below the URL dispatch of urls.py.           *)
(***************************************************************************)
EXTENDS Integers, Sequences, FiniteSets, TLC

(* ------------------------------ bounds -------------------------------- *)
MaxStock     == 1   \* the stock a product is created with
MaxQty       == 1   \* largest quantity of one cart line
MaxOrders    == 2   \* Order rows created

MaxRestock   == 2   \* the largest stock a vendor enters when editing every field
MaxCartQty   == 2   \* largest quantity of one cart line in the well-stocked shop
ShelfStock   == 3   \* the stock of every product in the well-stocked shop

Products == {1, 2}   \* the catalogue
VendorPrices == {1, 2}   \* the prices (in cents) a vendor enters
Shoppers == {1}          \* the sessions that shop while the vendor edits

\* the prices (in cents) of the products of the well-stocked shop
PriceOf(p) == IF p = 1 THEN 999 ELSE 250
Sessions == {1, 2}   \* browser sessions; session s belongs to buyer s

VARIABLES
    product,    \* Product table: id -> [stock_qty, is_active, price]
    orders,     \* Order table: sequence of buyers, the id is the index
    items,      \* OrderItem table: set of rows
    invoices,   \* invoices handed to the mail backend
    sessCart,   \* session store: session -> cart, a dict in insertion order
    pc,         \* position of the session's checkout request
    lcart,      \* checkout local: cart
    lorder,     \* checkout local: order (its id), 0 before it exists
    idx,        \* checkout local: position of the for loop in cart.items()
    lprod,      \* checkout local: product, the instance read by the lookup
    llines,     \* checkout local: lines
    res,        \* outcome of the session's last checkout request
    password,   \* User table: id -> credential
    resetTokens,\* ResetToken table: set of rows, token_hash unique
    issued,     \* raw tokens secrets.token_urlsafe has produced so far
    now,        \* timezone.now()
    rsession,   \* session store: session -> reset_user_id, reset_token_hash
    rpc,        \* position of the session's password-reset request
    lrt,        \* reset local: rt, the ResetToken instance read
    luser,      \* reset local: user (its id)
    lhash,      \* reset local: token_hash
    lpw,        \* reset local: password
    llive,      \* whether the bound token was redeemable when the request began
    lat,        \* the timezone.now() that is_expired read, -1 before it is called
    rres,       \* outcome of the session's last password-reset request
    forgotSeen  \* responses forgot_password gave: <<email matched, response>>

shopVars == <<product, orders, items, invoices, sessCart, pc, lcart, lorder,
              idx, lprod, llines, res>>

resetVars == <<password, resetTokens, issued, now, rsession, rpc, lrt, luser,
               lhash, lpw, llive, lat, rres, forgotSeen>>

vars == <<shopVars, resetVars>>

NoProduct == [stock_qty |-> 0, is_active |-> FALSE, price |-> 0]

(* ------------------------------ helpers ------------------------------- *)

\* cart.get(key, 0): the quantity stored under a product id
CartGet(cart, p) ==
    IF \E i \in 1..Len(cart) : cart[i].pid = p
    THEN (CHOOSE l \in {cart[i] : i \in 1..Len(cart)} : l.pid = p).qty
    ELSE 0

\* cart[key] = cart.get(key, 0) + 1: a present key keeps its place
CartIncrement(cart, p) ==
    IF \E i \in 1..Len(cart) : cart[i].pid = p
    THEN [i \in 1..Len(cart) |->
             IF cart[i].pid = p THEN [pid |-> p, qty |-> cart[i].qty + 1]
                                ELSE cart[i]]
    ELSE Append(cart, [pid |-> p, qty |-> 1])

\* A variant that takes one unit off the line and drops it at zero.
CartPopOneUnit(cart, p) ==
    SelectSeq([i \in 1..Len(cart) |->
                  IF cart[i].pid = p THEN [pid |-> p, qty |-> cart[i].qty - 1]
                                     ELSE cart[i]],
              LAMBDA l : l.qty > 0)

\* cart.pop(key)
CartPop(cart, p) == SelectSeq(cart, LAMBDA l : l.pid # p)

\* A variant that drops the cents of the price before it multiplies.
line_total_whole_units(item) == (item.unit_price \div 100) * 100 * item.quantity

\* OrderItem.line_total: Decimal * int is exact; prices are counted in cents
line_total(item) == item.unit_price * item.quantity

RECURSIVE GrandTotal(_)
GrandTotal(lines) ==
    IF lines = <<>> THEN 0
    ELSE line_total(Head(lines)) + GrandTotal(Tail(lines))

(* ------------------------------- Init --------------------------------- *)
ShopInit ==
    /\ product = [p \in Products |->
                     [stock_qty |-> MaxStock, is_active |-> TRUE, price |-> 1]]
    /\ orders = <<>>
    /\ items = {}
    /\ invoices = {}
    /\ sessCart = [s \in Sessions |-> <<>>]
    /\ pc = [s \in Sessions |-> "idle"]
    /\ lcart = [s \in Sessions |-> <<>>]
    /\ lorder = [s \in Sessions |-> 0]
    /\ idx = [s \in Sessions |-> 0]
    /\ lprod = [s \in Sessions |-> NoProduct]
    /\ llines = [s \in Sessions |-> <<>>]
    /\ res = [s \in Sessions |-> "none"]

(* --------------------------- vendor, cart ------------------------------ *)

\* A variant in which an edit of the price reprices the product's OrderItems.
product_edit_reprices(p, price, stock, active) ==
    /\ product' = [product EXCEPT ![p] =
                      [stock_qty |-> stock, is_active |-> active, price |-> price]]
    /\ items' = {IF i.product = p THEN [i EXCEPT !.unit_price = price] ELSE i :
                    i \in items}
    /\ UNCHANGED <<orders, invoices, sessCart, pc, lcart, lorder, idx,
                   lprod, llines, res>>

\* product_edit, POST: every editable field is overwritten from the form, so
\* the instance read by get_object_or_404 contributes nothing to the row saved
product_edit(p, price, stock, active) ==
    /\ product' = [product EXCEPT ![p] =
                      [stock_qty |-> stock, is_active |-> active, price |-> price]]
    /\ UNCHANGED <<orders, items, invoices, sessCart, pc, lcart, lorder, idx,
                   lprod, llines, res>>

\* cart_add: 404 for an inactive product, else one more of it in the cart
cart_add(s, p) ==
    /\ pc[s] = "idle"
    /\ product[p].is_active
    /\ sessCart' = [sessCart EXCEPT ![s] = CartIncrement(sessCart[s], p)]
    /\ UNCHANGED <<product, orders, items, invoices, pc, lcart, lorder, idx,
                   lprod, llines, res>>

\* cart_remove: drops the line when the key is in the cart, else nothing
cart_remove(s, p) ==
    /\ pc[s] = "idle"
    /\ sessCart' = [sessCart EXCEPT ![s] =
                       IF CartGet(sessCart[s], p) > 0
                       THEN CartPop(sessCart[s], p) ELSE sessCart[s]]
    /\ UNCHANGED <<product, orders, items, invoices, pc, lcart, lorder, idx,
                   lprod, llines, res>>

(* ------------------------------ checkout ------------------------------- *)

\* cart = _get_cart(request.session): the request loads its session.
\* The guard caps the number of Order rows of a run.
CheckoutBegin(s) ==
    /\ pc[s] = "idle"
    /\ Len(orders) < MaxOrders
    /\ lcart' = [lcart EXCEPT ![s] = sessCart[s]]
    /\ lorder' = [lorder EXCEPT ![s] = 0]
    /\ idx' = [idx EXCEPT ![s] = 0]
    /\ res' = [res EXCEPT ![s] = "none"]
    /\ pc' = [pc EXCEPT ![s] = "start"]
    /\ UNCHANGED <<product, orders, items, invoices, sessCart, lprod, llines>>

\* A variant that clears the session cart before the lines are processed.
CheckoutCreateOrderClearsCart(s) ==
    /\ pc[s] = "start"
    /\ IF lcart[s] = <<>>
       THEN /\ res' = [res EXCEPT ![s] = "EmptyCart"]
            /\ pc' = [pc EXCEPT ![s] = "idle"]
            /\ UNCHANGED <<orders, lorder, idx, sessCart>>
       ELSE /\ Len(orders) < MaxOrders
            /\ orders' = Append(orders, s)
            /\ lorder' = [lorder EXCEPT ![s] = Len(orders) + 1]
            /\ idx' = [idx EXCEPT ![s] = 1]
            /\ pc' = [pc EXCEPT ![s] = "lookup"]
            /\ sessCart' = [sessCart EXCEPT ![s] = <<>>]
            /\ res' = res
    /\ UNCHANGED <<product, items, invoices, lcart, lprod, llines>>

\* A variant that creates the Order before it tests the cart.
CheckoutCreateOrderFirst(s) ==
    /\ pc[s] = "start"
    /\ Len(orders) < MaxOrders
    /\ orders' = Append(orders, s)
    /\ lorder' = [lorder EXCEPT ![s] = Len(orders) + 1]
    /\ IF lcart[s] = <<>>
       THEN /\ res' = [res EXCEPT ![s] = "EmptyCart"]
            /\ pc' = [pc EXCEPT ![s] = "idle"]
            /\ idx' = idx
       ELSE /\ idx' = [idx EXCEPT ![s] = 1]
            /\ pc' = [pc EXCEPT ![s] = "lookup"]
            /\ res' = res
    /\ UNCHANGED <<product, items, invoices, sessCart, lcart, lprod, llines>>

\* if not cart: return ...; order = Order.objects.create(buyer=request.user)
CheckoutCreateOrder(s) ==
    /\ pc[s] = "start"
    /\ IF lcart[s] = <<>>
       THEN /\ res' = [res EXCEPT ![s] = "EmptyCart"]
            /\ pc' = [pc EXCEPT ![s] = "idle"]
            /\ UNCHANGED <<orders, lorder, idx>>
       ELSE /\ Len(orders) < MaxOrders
            /\ orders' = Append(orders, s)
            /\ lorder' = [lorder EXCEPT ![s] = Len(orders) + 1]
            /\ idx' = [idx EXCEPT ![s] = 1]
            /\ pc' = [pc EXCEPT ![s] = "lookup"]
            /\ res' = res
    /\ UNCHANGED <<product, items, invoices, sessCart, lcart, lprod, llines>>

\* product = get_object_or_404(Product, id=int(pid_str), is_active=True)
CheckoutLookup(s) ==
    /\ pc[s] = "lookup"
    /\ LET p == lcart[s][idx[s]].pid IN
       IF product[p].is_active
       THEN /\ lprod' = [lprod EXCEPT ![s] = product[p]]
            /\ pc' = [pc EXCEPT ![s] = "reserve"]
            /\ UNCHANGED <<res, llines>>
       ELSE /\ res' = [res EXCEPT ![s] = "ProductUnavailable"]
            /\ pc' = [pc EXCEPT ![s] = "idle"]
            /\ llines' = [llines EXCEPT ![s] = <<>>]
            /\ lprod' = lprod
    /\ UNCHANGED <<product, orders, items, invoices, sessCart, lcart, lorder, idx>>

\* A variant without the stock test before the decrement.
CheckoutReserveUnguarded(s) ==
    /\ pc[s] = "reserve"
    /\ LET p == lcart[s][idx[s]].pid
           qty == lcart[s][idx[s]].qty IN
       /\ lprod' = [lprod EXCEPT ![s].stock_qty = lprod[s].stock_qty - qty]
       /\ product' = [product EXCEPT ![p] = lprod'[s]]
       /\ pc' = [pc EXCEPT ![s] = "item"]
    /\ UNCHANGED <<orders, items, invoices, sessCart, lcart, lorder, idx, res, llines>>

\* if product.stock_qty < qty: return ...
\* product.stock_qty -= qty; product.save()   (save writes every column)
CheckoutReserve(s) ==
    /\ pc[s] = "reserve"
    /\ LET p == lcart[s][idx[s]].pid
           qty == lcart[s][idx[s]].qty IN
       IF lprod[s].stock_qty < qty
       THEN /\ res' = [res EXCEPT ![s] = "InsufficientStock"]
            /\ pc' = [pc EXCEPT ![s] = "idle"]
            /\ lprod' = [lprod EXCEPT ![s] = NoProduct]
            /\ llines' = [llines EXCEPT ![s] = <<>>]
            /\ product' = product
       ELSE /\ lprod' = [lprod EXCEPT ![s].stock_qty = lprod[s].stock_qty - qty]
            /\ product' = [product EXCEPT ![p] = lprod'[s]]
            /\ pc' = [pc EXCEPT ![s] = "item"]
            /\ UNCHANGED <<res, llines>>
    /\ UNCHANGED <<orders, items, invoices, sessCart, lcart, lorder, idx>>

\* item = OrderItem.objects.create(...); lines.append(item)
CheckoutCreateItem(s) ==
    /\ pc[s] = "item"
    /\ LET item == [order |-> lorder[s], product |-> lcart[s][idx[s]].pid,
                    quantity |-> lcart[s][idx[s]].qty,
                    unit_price |-> lprod[s].price] IN
       /\ items' = items \cup {item}
       /\ llines' = [llines EXCEPT ![s] = Append(llines[s], item)]
    /\ idx' = [idx EXCEPT ![s] = idx[s] + 1]
    /\ pc' = [pc EXCEPT ![s] = IF idx[s] < Len(lcart[s]) THEN "lookup" ELSE "finish"]
    /\ lprod' = [lprod EXCEPT ![s] = NoProduct]
    /\ UNCHANGED <<product, orders, invoices, sessCart, lcart, lorder, res>>

\* _save_cart(request.session, {}), the invoice, the success page
CheckoutFinish(s) ==
    /\ pc[s] = "finish"
    /\ sessCart' = [sessCart EXCEPT ![s] = <<>>]
    /\ invoices' = invoices \cup {[order |-> lorder[s], total |-> GrandTotal(llines[s])]}
    /\ res' = [res EXCEPT ![s] = "ok"]
    /\ pc' = [pc EXCEPT ![s] = "idle"]
    /\ llines' = [llines EXCEPT ![s] = <<>>]
    /\ UNCHANGED <<product, orders, items, lcart, lorder, idx, lprod>>

checkout(s) ==
    \/ CheckoutBegin(s)
    \/ CheckoutCreateOrder(s)
    \/ CheckoutLookup(s)
    \/ CheckoutReserve(s)
    \/ CheckoutCreateItem(s)
    \/ CheckoutFinish(s)

(* --------------------------- password reset ---------------------------- *)

Users == {1, 2}

\* timedelta(minutes=10)
TokenTTL == 10

\* the instants (in minutes) at which requests arrive
Instants == {0, 10, 11}

MaxTokens == 1   \* reset tokens issued

\* the passwords a reset form submits; "" is an empty field
FormPasswords == {"", "a"}

\* the addresses a forgot-password form submits; "" is an empty field
EmailOf(u) == IF u = 1 THEN "u1@shop" ELSE "u2@shop"
FormEmails == {""} \cup {EmailOf(u) : u \in Users} \cup {"nobody@shop"}

\* sha1(token.encode()).hexdigest()
Sha1(raw) == <<"sha1", raw>>

NoToken == [token_hash |-> <<>>, user |-> 0, expiry_date |-> 0, used |-> FALSE]
NoBinding == [reset_user_id |-> 0, reset_token_hash |-> <<>>]

\* A variant that also counts the expiry instant itself as expired.
is_expired_inclusive(rt) == now >= rt.expiry_date

\* ResetToken.is_expired
is_expired(rt) == now > rt.expiry_date

\* A variant of the lookup without the used=False filter.
GetAnyToken(token_hash) ==
    IF \E t \in resetTokens : t.token_hash = token_hash
    THEN CHOOSE t \in resetTokens : t.token_hash = token_hash
    ELSE NoToken

\* ResetToken.objects.get(token_hash=token_hash, used=False), NoToken for DoesNotExist
GetUnused(token_hash) ==
    IF \E t \in resetTokens : t.token_hash = token_hash /\ ~t.used
    THEN CHOOSE t \in resetTokens : t.token_hash = token_hash /\ ~t.used
    ELSE NoToken

\* rt.delete(): removes the row with the instance's key
DeleteToken(rt) == {t \in resetTokens : t.token_hash # rt.token_hash}

\* rt.save(): updates the row with the instance's key, inserts it when gone
SaveToken(rt) == DeleteToken(rt) \cup {rt}

ResetInit ==
    /\ password = [u \in Users |-> "init"]
    /\ resetTokens = {}
    /\ issued = 0
    /\ now = 0
    /\ rsession = [s \in Sessions |-> NoBinding]
    /\ rpc = [s \in Sessions |-> "idle"]
    /\ lrt = [s \in Sessions |-> NoToken]
    /\ luser = [s \in Sessions |-> 0]
    /\ lhash = [s \in Sessions |-> <<>>]
    /\ lpw = [s \in Sessions |-> ""]
    /\ llive = [s \in Sessions |-> FALSE]
    /\ lat = [s \in Sessions |-> -1]
    /\ rres = [s \in Sessions |-> "none"]
    /\ forgotSeen = {}

\* time passes between requests and between the storage calls of a request
Tick ==
    /\ \E t \in Instants : t > now /\ now' = t
    /\ UNCHANGED <<password, resetTokens, issued, rsession, rpc, lrt, luser,
                   lhash, lpw, llive, lat, rres, forgotSeen>>

\* forgot_password, POST
forgot_password(email) ==
    /\ IF email = ""
       THEN UNCHANGED <<resetTokens, issued, forgotSeen>>
       ELSE IF \E u \in Users : EmailOf(u) = email
       THEN LET user == CHOOSE u \in Users : EmailOf(u) = email
                raw_token == issued + 1 IN
            /\ issued < MaxTokens
            /\ issued' = raw_token
            /\ resetTokens' = resetTokens \cup
                  {[token_hash |-> Sha1(raw_token), user |-> user,
                    expiry_date |-> now + TokenTTL, used |-> FALSE]}
            /\ forgotSeen' = forgotSeen \cup {<<TRUE, "Reset email sent">>}
       ELSE /\ forgotSeen' = forgotSeen \cup {<<FALSE, "No user with that email.">>}
            /\ UNCHANGED <<resetTokens, issued>>
    /\ UNCHANGED <<password, now, rsession, rpc, lrt, luser, lhash, lpw,
                   llive, lat, rres>>

Live(token_hash) ==
    \E t \in resetTokens :
        t.token_hash = token_hash /\ ~t.used /\ ~is_expired(t)

\* reset_password_page: the lookup by hash
PageLookup(s, token) ==
    /\ rpc[s] = "idle"
    /\ LET rt == GetUnused(Sha1(token)) IN
       /\ lrt' = [lrt EXCEPT ![s] = rt]
       /\ lhash' = [lhash EXCEPT ![s] = Sha1(token)]
       /\ llive' = [llive EXCEPT ![s] = Live(Sha1(token))]
       /\ IF rt = NoToken
          THEN /\ rres' = [rres EXCEPT ![s] = "InvalidToken"]
               /\ rpc' = rpc
          ELSE /\ rres' = [rres EXCEPT ![s] = "none"]
               /\ rpc' = [rpc EXCEPT ![s] = "page_check"]
    /\ luser' = [luser EXCEPT ![s] = 0]
    /\ lpw' = [lpw EXCEPT ![s] = ""]
    /\ lat' = [lat EXCEPT ![s] = -1]
    /\ UNCHANGED <<password, resetTokens, issued, now, rsession, forgotSeen>>

\* A variant that binds the session also when the token has expired.
PageCheckBindsExpired(s) ==
    /\ rpc[s] = "page_check"
    /\ IF is_expired(lrt[s])
       THEN /\ resetTokens' = DeleteToken(lrt[s])
            /\ rres' = [rres EXCEPT ![s] = "TokenExpired"]
       ELSE /\ rres' = [rres EXCEPT ![s] = "valid"]
            /\ resetTokens' = resetTokens
    /\ rsession' = [rsession EXCEPT ![s] =
           [reset_user_id |-> lrt[s].user, reset_token_hash |-> lhash[s]]]
    /\ rpc' = [rpc EXCEPT ![s] = "idle"]
    /\ lrt' = [lrt EXCEPT ![s] = NoToken]
    /\ llive' = [llive EXCEPT ![s] = FALSE]
    /\ lat' = [lat EXCEPT ![s] = now]
    /\ UNCHANGED <<password, issued, now, luser, lhash, lpw, forgotSeen>>

\* reset_password_page: is_expired, then rt.delete() or the session binding.
\* Both refusals render "Token invalid or expired."; rres names the branch.
PageCheck(s) ==
    /\ rpc[s] = "page_check"
    /\ IF is_expired(lrt[s])
       THEN /\ resetTokens' = DeleteToken(lrt[s])
            /\ rres' = [rres EXCEPT ![s] = "TokenExpired"]
            /\ rsession' = rsession
       ELSE /\ rsession' = [rsession EXCEPT ![s] =
                  [reset_user_id |-> lrt[s].user, reset_token_hash |-> lhash[s]]]
            /\ rres' = [rres EXCEPT ![s] = "valid"]
            /\ resetTokens' = resetTokens
    /\ rpc' = [rpc EXCEPT ![s] = "idle"]
    /\ lrt' = [lrt EXCEPT ![s] = NoToken]
    /\ llive' = [llive EXCEPT ![s] = FALSE]
    /\ lat' = [lat EXCEPT ![s] = now]
    /\ UNCHANGED <<password, issued, now, luser, lhash, lpw, forgotSeen>>

reset_password_page(s, token) == PageLookup(s, token) \/ PageCheck(s)

\* A variant that drops the session binding when the passwords differ.
ConfirmBeginMismatchUnbinds(s, pw, password_conf) ==
    /\ rpc[s] = "idle"
    /\ lhash' = [lhash EXCEPT ![s] = rsession[s].reset_token_hash]
    /\ lrt' = [lrt EXCEPT ![s] = NoToken]
    /\ lat' = [lat EXCEPT ![s] = -1]
    /\ IF pw = "" \/ pw # password_conf
       THEN /\ rres' = [rres EXCEPT ![s] = "PasswordMismatch"]
            /\ rpc' = rpc
            /\ luser' = [luser EXCEPT ![s] = 0]
            /\ lpw' = [lpw EXCEPT ![s] = ""]
            /\ llive' = [llive EXCEPT ![s] = FALSE]
            /\ rsession' = [rsession EXCEPT ![s] = NoBinding]
       ELSE IF rsession[s].reset_user_id \notin Users
       THEN /\ rres' = [rres EXCEPT ![s] = "NotFound"]
            /\ rpc' = rpc
            /\ luser' = [luser EXCEPT ![s] = 0]
            /\ lpw' = [lpw EXCEPT ![s] = ""]
            /\ llive' = [llive EXCEPT ![s] = FALSE]
            /\ rsession' = rsession
       ELSE /\ rres' = [rres EXCEPT ![s] = "none"]
            /\ rpc' = [rpc EXCEPT ![s] = "confirm_token"]
            /\ luser' = [luser EXCEPT ![s] = rsession[s].reset_user_id]
            /\ lpw' = [lpw EXCEPT ![s] = pw]
            /\ llive' = [llive EXCEPT ![s] = Live(rsession[s].reset_token_hash)]
            /\ rsession' = rsession
    /\ UNCHANGED <<password, resetTokens, issued, now, forgotSeen>>

\* reset_password_confirm: the session binding, the form, the user lookup
ConfirmBegin(s, pw, password_conf) ==
    /\ rpc[s] = "idle"
    /\ lhash' = [lhash EXCEPT ![s] = rsession[s].reset_token_hash]
    /\ lrt' = [lrt EXCEPT ![s] = NoToken]
    /\ lat' = [lat EXCEPT ![s] = -1]
    /\ IF pw = "" \/ pw # password_conf
       THEN /\ rres' = [rres EXCEPT ![s] = "PasswordMismatch"]
            /\ rpc' = rpc
            /\ luser' = [luser EXCEPT ![s] = 0]
            /\ lpw' = [lpw EXCEPT ![s] = ""]
            /\ llive' = [llive EXCEPT ![s] = FALSE]
       ELSE IF rsession[s].reset_user_id \notin Users
       THEN /\ rres' = [rres EXCEPT ![s] = "NotFound"]
            /\ rpc' = rpc
            /\ luser' = [luser EXCEPT ![s] = 0]
            /\ lpw' = [lpw EXCEPT ![s] = ""]
            /\ llive' = [llive EXCEPT ![s] = FALSE]
       ELSE /\ rres' = [rres EXCEPT ![s] = "none"]
            /\ rpc' = [rpc EXCEPT ![s] = "confirm_token"]
            /\ luser' = [luser EXCEPT ![s] = rsession[s].reset_user_id]
            /\ lpw' = [lpw EXCEPT ![s] = pw]
            /\ llive' = [llive EXCEPT ![s] = Live(rsession[s].reset_token_hash)]
    /\ UNCHANGED <<password, resetTokens, issued, now, rsession, forgotSeen>>

\* rt = get_object_or_404(ResetToken, token_hash=token_hash, used=False)
ConfirmLookup(s) ==
    /\ rpc[s] = "confirm_token"
    /\ LET rt == GetUnused(lhash[s]) IN
       IF rt = NoToken
       THEN /\ rres' = [rres EXCEPT ![s] = "NotFound"]
            /\ rpc' = [rpc EXCEPT ![s] = "idle"]
            /\ llive' = [llive EXCEPT ![s] = FALSE]
            /\ lpw' = [lpw EXCEPT ![s] = ""]
            /\ luser' = [luser EXCEPT ![s] = 0]
            /\ lrt' = lrt
       ELSE /\ lrt' = [lrt EXCEPT ![s] = rt]
            /\ rpc' = [rpc EXCEPT ![s] = "confirm_check"]
            /\ UNCHANGED <<rres, llive, lpw, luser>>
    /\ UNCHANGED <<password, resetTokens, issued, now, rsession, lhash, lat,
                   forgotSeen>>

\* is_expired, then rt.delete(), or user.set_password(password); user.save()
ConfirmCheck(s) ==
    /\ rpc[s] = "confirm_check"
    /\ IF is_expired(lrt[s])
       THEN /\ resetTokens' = DeleteToken(lrt[s])
            /\ rres' = [rres EXCEPT ![s] = "TokenExpired"]
            /\ rpc' = [rpc EXCEPT ![s] = "idle"]
            /\ lrt' = [lrt EXCEPT ![s] = NoToken]
            /\ llive' = [llive EXCEPT ![s] = FALSE]
            /\ lpw' = [lpw EXCEPT ![s] = ""]
            /\ luser' = [luser EXCEPT ![s] = 0]
            /\ password' = password
       ELSE /\ password' = [password EXCEPT ![luser[s]] = lpw[s]]
            /\ rpc' = [rpc EXCEPT ![s] = "confirm_mark"]
            /\ UNCHANGED <<resetTokens, rres, lrt, llive, lpw, luser>>
    /\ lat' = [lat EXCEPT ![s] = now]
    /\ UNCHANGED <<issued, now, rsession, lhash, forgotSeen>>

\* A variant that saves the token without setting used.
ConfirmMarkForgetsUsed(s) ==
    /\ rpc[s] = "confirm_mark"
    /\ resetTokens' = SaveToken(lrt[s])
    /\ rsession' = [rsession EXCEPT ![s] = NoBinding]
    /\ rres' = [rres EXCEPT ![s] = "ok"]
    /\ rpc' = [rpc EXCEPT ![s] = "idle"]
    /\ lrt' = [lrt EXCEPT ![s] = NoToken]
    /\ llive' = [llive EXCEPT ![s] = FALSE]
    /\ lpw' = [lpw EXCEPT ![s] = ""]
    /\ luser' = [luser EXCEPT ![s] = 0]
    /\ UNCHANGED <<password, issued, now, lhash, lat, forgotSeen>>

\* rt.used = True; rt.save(); the session keys are popped; redirect
ConfirmMark(s) ==
    /\ rpc[s] = "confirm_mark"
    /\ resetTokens' = SaveToken([lrt[s] EXCEPT !.used = TRUE])
    /\ rsession' = [rsession EXCEPT ![s] = NoBinding]
    /\ rres' = [rres EXCEPT ![s] = "ok"]
    /\ rpc' = [rpc EXCEPT ![s] = "idle"]
    /\ lrt' = [lrt EXCEPT ![s] = NoToken]
    /\ llive' = [llive EXCEPT ![s] = FALSE]
    /\ lpw' = [lpw EXCEPT ![s] = ""]
    /\ luser' = [luser EXCEPT ![s] = 0]
    /\ UNCHANGED <<password, issued, now, lhash, lat, forgotSeen>>

reset_password_confirm(s, pw, password_conf) ==
    \/ ConfirmBegin(s, pw, password_conf)
    \/ ConfirmLookup(s)
    \/ ConfirmCheck(s)
    \/ ConfirmMark(s)

(* --------------------------- specifications ---------------------------- *)

Init == ShopInit /\ ResetInit

\* the shop: vendors, carts and concurrent checkouts
Next ==
    \/ /\ \E p \in Products, active \in BOOLEAN :
             product_edit(p, product[p].price, product[p].stock_qty, active)
       /\ UNCHANGED resetVars
    \/ /\ \E s \in Sessions, p \in Products :
             CartGet(sessCart[s], p) < MaxQty /\ cart_add(s, p)
       /\ UNCHANGED resetVars
    \/ /\ \E s \in Sessions, p \in Products : cart_remove(s, p)
       /\ UNCHANGED resetVars
    \/ /\ \E s \in Sessions : checkout(s)
       /\ UNCHANGED resetVars

Spec == Init /\ [][Next]_vars

\* the shop with a vendor who edits every field of a product while a buyer
\* fills a cart and checks out
NextVendor ==
    \/ /\ \E p \in Products, price \in VendorPrices, stock \in 0..MaxRestock,
             active \in BOOLEAN : product_edit(p, price, stock, active)
       /\ UNCHANGED resetVars
    \/ /\ \E s \in Shoppers, p \in Products :
             CartGet(sessCart[s], p) < MaxQty /\ cart_add(s, p)
       /\ UNCHANGED resetVars
    \/ /\ \E s \in Shoppers, p \in Products : cart_remove(s, p)
       /\ UNCHANGED resetVars
    \/ /\ \E s \in Shoppers : checkout(s)
       /\ UNCHANGED resetVars

SpecVendor == Init /\ [][NextVendor]_vars

\* a well-stocked shop: carts of several units, priced in cents, no vendor
CartInit ==
    /\ product = [p \in Products |->
                     [stock_qty |-> ShelfStock, is_active |-> TRUE,
                      price |-> PriceOf(p)]]
    /\ orders = <<>>
    /\ items = {}
    /\ invoices = {}
    /\ sessCart = [s \in Sessions |-> <<>>]
    /\ pc = [s \in Sessions |-> "idle"]
    /\ lcart = [s \in Sessions |-> <<>>]
    /\ lorder = [s \in Sessions |-> 0]
    /\ idx = [s \in Sessions |-> 0]
    /\ lprod = [s \in Sessions |-> NoProduct]
    /\ llines = [s \in Sessions |-> <<>>]
    /\ res = [s \in Sessions |-> "none"]

NextCart ==
    \/ /\ \E s \in Sessions, p \in Products :
             CartGet(sessCart[s], p) < MaxCartQty /\ cart_add(s, p)
       /\ UNCHANGED resetVars
    \/ /\ \E s \in Sessions, p \in Products : cart_remove(s, p)
       /\ UNCHANGED resetVars
    \/ /\ \E s \in Sessions : checkout(s)
       /\ UNCHANGED resetVars

InitCart == CartInit /\ ResetInit

SpecCart == InitCart /\ [][NextCart]_vars

\* the password reset: concurrent forgot / page / confirm requests
NextReset ==
    \/ Tick /\ UNCHANGED shopVars
    \/ /\ \E email \in FormEmails : forgot_password(email)
       /\ UNCHANGED shopVars
    \/ /\ \E s \in Sessions, token \in 0..MaxTokens : reset_password_page(s, token)
       /\ UNCHANGED shopVars
    \/ /\ \E s \in Sessions, pw \in FormPasswords, password_conf \in FormPasswords :
             reset_password_confirm(s, pw, password_conf)
       /\ UNCHANGED shopVars

SpecReset == Init /\ [][NextReset]_vars

(* ============================ checkout claims ========================== *)

Min(a, b) == IF a < b THEN a ELSE b

ItemsOf(o) == {i \in items : i.order = o}

Returned(s) == pc[s] = "idle" /\ res[s] # "none"

Failed(s) == Returned(s) /\ res[s] \in {"ProductUnavailable", "InsufficientStock"}

\* every session has made exactly one checkout of a non-empty cart, each for
\* q units of product p alone, and all of them have returned
RaceFor(p, q) ==
    /\ Len(orders) = Cardinality(Sessions)
    /\ \A s \in Sessions :
          /\ Returned(s)
          /\ res[s] \in {"ok", "InsufficientStock"}
          /\ lcart[s] = <<[pid |-> p, qty |-> q]>>
          /\ lorder[s] \in 1..Len(orders)
          /\ orders[lorder[s]] = s

Succeeded == {s \in Sessions : res[s] = "ok"}

\* C1: N concurrent checkouts of q units each against a product with stock S:
\* exactly min(N, S div q) of them succeed and the final stock is
\* S - succeeded * q.
C1_NoOversell ==
    \A p \in Products, q \in 1..MaxQty :
        RaceFor(p, q) =>
            /\ Cardinality(Succeeded) = Min(Cardinality(Sessions), MaxStock \div q)
            /\ product[p].stock_qty = MaxStock - Cardinality(Succeeded) * q

\* C2: a checkout that failed on some line leaves no Order, no OrderItem and
\* no stock decrement of its own behind.
C2_AllOrNothing ==
    \A s \in Sessions :
        Failed(s) =>
            /\ lorder[s] \notin 1..Len(orders)
            /\ ItemsOf(lorder[s]) = {}
            /\ idx[s] <= 1

\* C4: the stock quantity of every product is non-negative in every state.
C4_StockNonNegative == \A p \in Products : product[p].stock_qty >= 0

\* two checkouts have both sold the last unit of a product and its stock is 0
C4_Witness ==
    \E p \in Products :
        /\ product[p].stock_qty = 0
        /\ Cardinality({i \in items : i.product = p}) >= 2
        /\ \E s \in Sessions : res[s] = "InsufficientStock"

\* C5: once the checkout that created it has returned, every persisted Order
\* has at least one OrderItem.
C5_NoEmptyOrder ==
    \A o \in 1..Len(orders) :
        (\A s \in Sessions : lorder[s] = o => pc[s] = "idle") => ItemsOf(o) # {}

CartLines(cart) == {[product |-> cart[i].pid, quantity |-> cart[i].qty] : i \in 1..Len(cart)}

OrderLines(o) == {[product |-> i.product, quantity |-> i.quantity] : i \in ItemsOf(o)}

\* C10: while a checkout runs and until it has succeeded the session cart is
\* the cart it started from (so a failed checkout returns with the cart as
\* it was); the step that makes it succeed leaves the cart empty and an
\* Order of the buyer holding exactly one OrderItem per line of that cart.
C10_CartClearedOnSuccessOnly ==
    [][\A s \in Sessions :
          /\ (pc[s] # "idle" /\ res'[s] # "ok") => sessCart'[s] = lcart[s]
          /\ (pc[s] # "idle" /\ res'[s] = "ok") =>
                /\ sessCart'[s] = <<>>
                /\ lorder[s] \in 1..Len(orders')
                /\ orders'[lorder[s]] = s
                /\ OrderLines(lorder[s])' = CartLines(lcart[s])
                /\ Cardinality(ItemsOf(lorder[s])') = Len(lcart[s])]_vars

\* one checkout of a two-line cart has succeeded and emptied its cart while
\* another has failed and kept its cart
C10_Witness ==
    \E s, f \in Sessions :
        /\ Returned(s) /\ res[s] = "ok" /\ sessCart[s] = <<>>
        /\ Len(lcart[s]) = 2 /\ Cardinality(ItemsOf(lorder[s])) = 2
        /\ Failed(f) /\ lcart[f] # <<>> /\ sessCart[f] = lcart[f]

\* C12: a checkout that loaded an empty cart returns EmptyCart in its first
\* step, and that step creates no Order, no OrderItem and no invoice and
\* changes no stock; only a checkout of an empty cart is answered EmptyCart.
C12_EmptyCartCreatesNothing ==
    [][\A s \in Sessions :
          /\ (pc[s] = "start" /\ lcart[s] = <<>> /\ pc'[s] # "start") =>
                /\ res'[s] = "EmptyCart"
                /\ pc'[s] = "idle"
                /\ orders' = orders
                /\ items' = items
                /\ product' = product
                /\ invoices' = invoices
          /\ (pc[s] # "idle" /\ res'[s] = "EmptyCart") =>
                pc[s] = "start" /\ lcart[s] = <<>>]_vars

\* a checkout of an empty cart has returned EmptyCart and its buyer has no
\* Order, while another buyer's checkout has succeeded
C12_Witness ==
    \E s \in Sessions :
        /\ Returned(s) /\ res[s] = "EmptyCart"
        /\ \A o \in 1..Len(orders) : orders[o] # s
        /\ \E f \in Sessions : res[f] = "ok" /\ ItemsOf(lorder[f]) # {}

\* C13: the price a checkout reads for a line is the product's price at that
\* moment, the OrderItem it creates for the line carries that price as its
\* unit_price, and no step (a vendor's edit of the price included) changes
\* or removes an existing OrderItem, so unit_price and line total stay.
C13_UnitPriceSnapshot ==
    [][/\ items \subseteq items'
       /\ \A s \in Sessions :
             /\ (pc[s] = "lookup" /\ pc'[s] = "reserve") =>
                   lprod'[s].price = product[lcart[s][idx[s]].pid].price
             /\ (pc[s] = "reserve" /\ pc'[s] = "item") =>
                   lprod'[s].price = lprod[s].price
             /\ (pc[s] = "item" /\ pc'[s] # "item") =>
                   \E i \in items' :
                       /\ items' = items \cup {i}
                       /\ i.order = lorder[s]
                       /\ i.product = lcart[s][idx[s]].pid
                       /\ i.unit_price = lprod[s].price]_vars

\* an order was completed, the vendor has since changed the product's price,
\* and the OrderItem still carries the price of the purchase
C13_Witness ==
    \E s \in Sessions, i \in items :
        /\ Returned(s) /\ res[s] = "ok" /\ i.order = lorder[s]
        /\ i.unit_price = 1
        /\ product[i.product].price = 2
        /\ \E inv \in invoices : inv.order = i.order /\ inv.total = line_total(i)

RECURSIVE SumOfLineTotals(_)
SumOfLineTotals(S) ==
    IF S = {} THEN 0
    ELSE LET i == CHOOSE x \in S : TRUE
         IN  line_total(i) + SumOfLineTotals(S \ {i})

\* C14: the line total of every OrderItem is its unit_price (in cents) times
\* its quantity, and the grand total of the invoice of an order is the sum of
\* the line totals of the OrderItems of that order and of no other.
C14_TotalsExact ==
    /\ \A i \in items : line_total(i) = i.unit_price * i.quantity
    /\ \A inv \in invoices :
          /\ inv.total = SumOfLineTotals(ItemsOf(inv.order))
          /\ \A other \in invoices : other.order = inv.order => other = inv
    /\ \A s \in Sessions :
          GrandTotal(llines[s]) =
              SumOfLineTotals({llines[s][k] : k \in 1..Len(llines[s])})

\* an order of two units of each product was invoiced 2 x 9.99 + 2 x 2.50,
\* and the other buyer's order has items of its own
C14_Witness ==
    \E inv \in invoices :
        /\ Cardinality(ItemsOf(inv.order)) = 2
        /\ \A i \in ItemsOf(inv.order) : i.quantity = 2
        /\ inv.total = 2498
        /\ \E i \in items : i.order # inv.order

\* C15: the write of a reservation leaves the stock a serial order of the
\* checkout and the vendor's edits would leave: the stock now stored less the
\* quantity (the edits first), or the stock now stored (the checkout first).
\* Checked where a single buyer shops, so that only the vendor's edits can
\* have changed the stock since the checkout read it.
C15_ReserveAtomicWithEdit ==
    [][\A s \in Sessions :
          (pc[s] = "reserve" /\ pc'[s] = "item") =>
              LET p   == lcart[s][idx[s]].pid
                  qty == lcart[s][idx[s]].qty
                  cur == product[p].stock_qty
              IN  \/ cur >= qty /\ product'[p].stock_qty = cur - qty
                  \/ cur # lprod[s].stock_qty /\ product'[p].stock_qty = cur]_vars

\* C17: a checkout looks up and reserves the lines of its cart in ascending
\* order of product id, whatever the order in which they were added.
C17_AscendingProductOrder ==
    \A s \in Sessions :
        pc[s] \in {"lookup", "reserve", "item"} =>
            \A i, j \in 1..idx[s] : i < j => lcart[s][i].pid < lcart[s][j].pid

\* a step of cart_add or cart_remove that changes the cart of session s
CartStep(s) == pc[s] = "idle" /\ pc'[s] = "idle" /\ sessCart'[s] # sessCart[s]

\* C19: every cart line has quantity at least 1 and every product at most
\* one line; a cart step either raises the quantity of one product by
\* exactly 1 (a new line starts at 1) or deletes the whole line of one
\* product, and leaves the other lines, the stock, the orders, the
\* OrderItems and the invoices as they were, so a quantity is the number of
\* adds since the line was last removed; removing an absent product leaves
\* the cart as it is.
C19_CartOps ==
    [][\A s \in Sessions :
          /\ \A k \in 1..Len(sessCart'[s]) :
                /\ sessCart'[s][k].qty >= 1
                /\ \A j \in 1..Len(sessCart'[s]) :
                      sessCart'[s][j].pid = sessCart'[s][k].pid => j = k
          /\ \A p \in Products :
                CartGet(sessCart[s], p) = 0 => CartPop(sessCart[s], p) = sessCart[s]
          /\ CartStep(s) =>
                /\ UNCHANGED <<product, orders, items, invoices>>
                /\ \E p \in Products :
                      /\ \A o \in Products \ {p} :
                            CartGet(sessCart'[s], o) = CartGet(sessCart[s], o)
                      /\ \/ CartGet(sessCart'[s], p) = CartGet(sessCart[s], p) + 1
                         \/ CartGet(sessCart'[s], p) = 0]_vars

\* before any checkout: one session added product 2 twice and product 1 once,
\* the other holds two units of product 2 alone, and nothing is persisted
C19_Witness ==
    \E s, o \in Sessions :
        /\ sessCart[s] = <<[pid |-> 2, qty |-> 2], [pid |-> 1, qty |-> 1]>>
        /\ sessCart[o] = <<[pid |-> 2, qty |-> 2]>>
        /\ orders = <<>> /\ items = {}
        /\ \A p \in Products : product[p].stock_qty = ShelfStock

\* C20: no step of a checkout changes the price or the active flag of a
\* product; both stay as the vendor last set them.
C20_CheckoutWritesStockOnly ==
    [][\A s \in Sessions :
          (pc[s] # "idle" /\ pc'[s] # pc[s]) =>
              \A p \in Products :
                  /\ product'[p].price = product[p].price
                  /\ product'[p].is_active = product[p].is_active]_vars

(* ========================= password-reset claims ======================= *)

\* C3: of two complete-redeem requests bound to the same token, at most one
\* ends with the password changed; the other is rejected.
C3_SingleUse ==
    \A s1, s2 \in Sessions :
        (s1 # s2 /\ lhash[s1] = lhash[s2] /\ lhash[s1] # <<>>)
            => ~(rres[s1] = "ok" /\ rres[s2] = "ok")

\* the step in which a request evaluates is_expired on the token it found
ExpiryStep(s) == rpc[s] \in {"page_check", "confirm_check"} /\ rpc'[s] # rpc[s]

\* the outcome of that step when the token is reported expired
ReportsExpired(s) ==
    /\ rres'[s] = "TokenExpired"
    /\ rpc'[s] = "idle"
    /\ password' = password
    /\ rsession' = rsession

\* the outcome of that step when the redemption step goes through
GoesThrough(s) ==
    IF rpc[s] = "page_check"
    THEN /\ rres'[s] = "valid"
         /\ rsession'[s] = [reset_user_id |-> lrt[s].user,
                            reset_token_hash |-> lrt[s].token_hash]
    ELSE /\ rpc'[s] = "confirm_mark"
         /\ password'[luser[s]] = lpw[s]

\* C6 as stated: a redemption step at or after the expiry timestamp reports
\* TokenExpired and changes no password; one strictly before it goes through.
C6_ExpiredAtOrAfterExpiry ==
    [][\A s \in Sessions :
          ExpiryStep(s) =>
              IF now >= lrt[s].expiry_date THEN ReportsExpired(s)
                                           ELSE GoesThrough(s)]_vars

\* C6 as amended: a redemption step strictly after the expiry timestamp
\* reports TokenExpired and changes no password; one at or before it goes
\* through.
C6_ExpiredStrictlyAfterExpiry ==
    [][\A s \in Sessions :
          ExpiryStep(s) =>
              IF now > lrt[s].expiry_date THEN ReportsExpired(s)
                                          ELSE GoesThrough(s)]_vars

\* a complete-redeem has set the password with is_expired evaluated exactly
\* at the expiry timestamp, and a begin-redeem has been told TokenExpired
C6_Witness ==
    \E s, e \in Sessions :
        /\ rpc[s] = "confirm_mark"
        /\ lat[s] = lrt[s].expiry_date
        /\ password[luser[s]] = lpw[s]
        /\ rres[e] = "TokenExpired" /\ lat[e] > lat[s]

\* the step in which a complete-redeem writes the password
PasswordStep(s) == rpc[s] = "confirm_check" /\ rpc'[s] = "confirm_mark"

\* C7: a password is changed only by a complete-redeem whose token was
\* unused and unexpired when the request began, so no request made after the
\* token became used or expired changes a password; and a token's used flag
\* never goes back to false, nor does its expiry or owner change.
C7_TerminalIsPermanent ==
    [][/\ password' # password => \E s \in Sessions : PasswordStep(s)
       /\ \A s \in Sessions : PasswordStep(s) => llive[s]
       /\ \A t \in resetTokens, t2 \in resetTokens' :
             t2.token_hash = t.token_hash =>
                 /\ t.used => t2.used
                 /\ t2.expiry_date = t.expiry_date
                 /\ t2.user = t.user]_vars

\* a complete-redeem bound to a token that another session has redeemed was
\* rejected, and a begin-redeem of an expired token was rejected
C7_Witness ==
    \E s \in Sessions :
        /\ rpc[s] = "idle" /\ rres[s] = "NotFound"
        /\ \E t \in resetTokens : t.token_hash = lhash[s] /\ t.used
        /\ password # [u \in Users |-> "init"]

UsedInDb(token_hash) == \E t \in resetTokens : t.token_hash = token_hash /\ t.used

C9_UniformResponse ==
    \A a, b \in forgotSeen : a[2] = b[2]

\* the step in which a complete-redeem first answers PasswordMismatch; a
\* second mismatch in a row leaves the whole state as it is
MismatchStep(s) ==
    rpc[s] = "idle" /\ rres[s] # "PasswordMismatch" /\ rres'[s] = "PasswordMismatch"

\* C11: a complete-redeem answered with PasswordMismatch changes no password,
\* no token and no session binding and returns at once, so the session can
\* retry with the binding and the token as they were; and every
\* complete-redeem whose passwords differ or are empty is answered so.
C11_MismatchChangesNothing ==
    [][\A s \in Sessions :
          /\ MismatchStep(s) =>
                /\ password' = password
                /\ resetTokens' = resetTokens
                /\ rsession' = rsession
                /\ rpc'[s] = "idle"
          /\ (rpc[s] = "idle" /\ rpc'[s] = "confirm_token") =>
                lpw'[s] # "" /\ rres'[s] # "PasswordMismatch"]_vars

\* a session bound to a live token was answered PasswordMismatch and still
\* holds the binding, the token still unused and the password unchanged
C11_Witness ==
    \E s \in Sessions :
        /\ rpc[s] = "idle" /\ rres[s] = "PasswordMismatch"
        /\ rsession[s] # NoBinding
        /\ Live(rsession[s].reset_token_hash)
        /\ password = [u \in Users |-> "init"]

\* C16: in no state has a complete-redeem set the user's password while the
\* token it redeems is still stored unused.
C16_PasswordAndUsedTogether ==
    \A s \in Sessions :
        ~ /\ rpc[s] = "confirm_mark"
          /\ password[luser[s]] = lpw[s]
          /\ \E t \in resetTokens : t.token_hash = lhash[s] /\ ~t.used

\* the step in which a begin-redeem finds no unused token for the hash
InvalidStep(s) ==
    /\ rpc[s] = "idle" /\ rpc'[s] = "idle"
    /\ rres'[s] = "InvalidToken"
    /\ rres[s] # "InvalidToken" \/ lhash'[s] # lhash[s]

\* C18: a session gets a binding only from a begin-redeem whose lookup found
\* an unused token with the presented hash and whose expiry test passed, and
\* the binding is that token's user and hash; a begin-redeem that finds no
\* unused token with the hash is refused and changes no binding and no
\* token; one that finds the token expired removes the token record, is
\* refused and changes no binding.
C18_BeginRedeemBinds ==
    [][\A s \in Sessions :
          /\ (rsession'[s] # rsession[s] /\ rsession'[s] # NoBinding) =>
                /\ rpc[s] = "page_check"
                /\ ~lrt[s].used
                /\ ~is_expired(lrt[s])
                /\ rsession'[s] = [reset_user_id |-> lrt[s].user,
                                   reset_token_hash |-> lrt[s].token_hash]
                /\ rres'[s] = "valid"
          /\ (rpc[s] = "idle" /\ rpc'[s] = "page_check") =>
                /\ lrt'[s] \in resetTokens
                /\ ~lrt'[s].used
                /\ lrt'[s].token_hash = lhash'[s]
          /\ InvalidStep(s) =>
                /\ ~ \E t \in resetTokens : t.token_hash = lhash'[s] /\ ~t.used
                /\ rsession' = rsession
                /\ resetTokens' = resetTokens
          /\ (rpc[s] = "page_check" /\ rres'[s] = "TokenExpired") =>
                /\ is_expired(lrt[s])
                /\ ~ \E t \in resetTokens' : t.token_hash = lrt[s].token_hash
                /\ rsession' = rsession]_vars

\* one session was bound by a begin-redeem of the token while it was valid;
\* another presented it after its expiry, was refused and got no binding,
\* and the token record is gone
C18_Witness ==
    \E s, e \in Sessions :
        /\ rres[s] = "valid" /\ rsession[s] = [reset_user_id |-> 1,
                                              reset_token_hash |-> Sha1(1)]
        /\ rpc[e] = "idle" /\ rres[e] = "TokenExpired"
        /\ rsession[e] = NoBinding
        /\ issued = 1 /\ resetTokens = {}

=============================================================================
